---- MODULE Spec2Model ----
(***************************************************************************)
(* Chat Relay of backend_service/src/api/main.py: the three relay          *)
(* endpoints /generate, /explain and /debug, the outbound call             *)
(* _call_openai_chat with its failure mapping, and the normalisation       *)
(* _extract_content_and_usage.                                             *)
(*                                                                         *)
(* Texts (HTTP bodies, error messages) are sequences of lexical tokens;    *)
(* JSON values are tagged records.  json.loads and json.dumps are the      *)
(* operators Loads and Dumps between the two, so a body and the            *)
(* re-serialisation of its parsed value are different texts in general.    *)
(***************************************************************************)
EXTENDS Integers, Sequences, FiniteSets, TLC

(***************************************************************************)
(* Bounds of the model.                                                    *)
(***************************************************************************)
\* usage counters sent by the upstream range over 0..MaxTokens
MaxTokens == 1

\* requests served at the same time by the event loop
MaxTasks == 2

(***************************************************************************)
(* Texts: sequences of tokens.                                             *)
(***************************************************************************)
P(c) == [k |-> c]
WS == [k |-> "ws"]
StrTok(s) == [k |-> "str", s |-> s]
NumTok(n) == [k |-> "num", n |-> n]
\* a run of characters that is no JSON token (plain text)
Chars(s) == [k |-> "chars", s |-> s]

(***************************************************************************)
(* JSON values as Python holds them after json.loads.                      *)
(***************************************************************************)
None == [t |-> "null"]
JBool(b) == [t |-> "bool", b |-> b]
JNum(n) == [n |-> n, t |-> "num"]
JStr(s) == [s |-> s, t |-> "str"]
JArr(items) == [t |-> "arr", items |-> items]
\* a dict: a sequence of <<key, value>> entries with distinct keys, in
\* insertion order
JObj(kv) == [t |-> "obj", kv |-> kv]
Entry(key, val) == [key |-> key, val |-> val]

HasKey(kv, key) == \E i \in 1..Len(kv) : kv[i].key = key

\* d[key] = val on a dict: a repeated key keeps its place and takes the
\* last value
DictSet(kv, key, val) ==
    IF HasKey(kv, key)
    THEN [i \in 1..Len(kv) |-> IF kv[i].key = key THEN Entry(key, val) ELSE kv[i]]
    ELSE Append(kv, Entry(key, val))

DictLookup(kv, key) ==
    LET i == CHOOSE j \in 1..Len(kv) : kv[j].key = key IN kv[i].val

(***************************************************************************)
(* json.loads, as resp.json() applies it to the body text.                 *)
(***************************************************************************)
ParseFail == [val |-> None, ok |-> FALSE, rest |-> <<>>]
ParseOk(v, rest) == [val |-> v, ok |-> TRUE, rest |-> rest]

RECURSIVE SkipWs(_)
SkipWs(ts) ==
    IF ts # <<>> /\ Head(ts).k = "ws" THEN SkipWs(Tail(ts)) ELSE ts

RECURSIVE ParseValue(_)
RECURSIVE ParseElements(_, _)
RECURSIVE ParseMembers(_, _)

ParseValue(ts) ==
    LET t == SkipWs(ts) IN
    IF t = <<>> THEN ParseFail
    ELSE LET h == Head(t)
             r == SkipWs(Tail(t))
         IN CASE h.k = "str" -> ParseOk(JStr(h.s), Tail(t))
              [] h.k = "num" -> ParseOk(JNum(h.n), Tail(t))
              [] h.k = "null" -> ParseOk(None, Tail(t))
              [] h.k = "true" -> ParseOk(JBool(TRUE), Tail(t))
              [] h.k = "false" -> ParseOk(JBool(FALSE), Tail(t))
              [] h.k = "[" ->
                    IF r # <<>> /\ Head(r).k = "]"
                    THEN ParseOk(JArr(<<>>), Tail(r))
                    ELSE ParseElements(Tail(t), <<>>)
              [] h.k = "{" ->
                    IF r # <<>> /\ Head(r).k = "}"
                    THEN ParseOk(JObj(<<>>), Tail(r))
                    ELSE ParseMembers(Tail(t), <<>>)
              [] OTHER -> ParseFail

ParseElements(ts, acc) ==
    LET v == ParseValue(ts) IN
    IF ~v.ok THEN ParseFail
    ELSE LET r == SkipWs(v.rest) IN
         IF r = <<>> THEN ParseFail
         ELSE CASE Head(r).k = "," -> ParseElements(Tail(r), Append(acc, v.val))
                [] Head(r).k = "]" -> ParseOk(JArr(Append(acc, v.val)), Tail(r))
                [] OTHER -> ParseFail

ParseMembers(ts, acc) ==
    LET t == SkipWs(ts) IN
    IF t = <<>> \/ Head(t).k # "str" THEN ParseFail
    ELSE LET c == SkipWs(Tail(t)) IN
         IF c = <<>> \/ Head(c).k # ":" THEN ParseFail
         ELSE LET v == ParseValue(Tail(c)) IN
              IF ~v.ok THEN ParseFail
              ELSE LET r == SkipWs(v.rest)
                       d == DictSet(acc, Head(t).s, v.val)
                   IN IF r = <<>> THEN ParseFail
                      ELSE CASE Head(r).k = "," -> ParseMembers(Tail(r), d)
                             [] Head(r).k = "}" -> ParseOk(JObj(d), Tail(r))
                             [] OTHER -> ParseFail

\* json.loads(text): the whole text must be one value; anything else raises
\* json.JSONDecodeError
Loads(text) ==
    LET v == ParseValue(text) IN
    IF v.ok /\ SkipWs(v.rest) = <<>>
    THEN [val |-> v.val, exc |-> "none"]
    ELSE [val |-> None, exc |-> "JSONDecodeError"]

(***************************************************************************)
(* json.dumps with its default separators (", " and ": ").                 *)
(***************************************************************************)
RECURSIVE Dumps(_)
RECURSIVE DumpItems(_)
RECURSIVE DumpEntries(_)

Dumps(v) ==
    CASE v.t = "null" -> <<P("null")>>
      [] v.t = "bool" -> IF v.b THEN <<P("true")>> ELSE <<P("false")>>
      [] v.t = "num" -> <<NumTok(v.n)>>
      [] v.t = "str" -> <<StrTok(v.s)>>
      [] v.t = "arr" -> <<P("[")>> \o DumpItems(v.items) \o <<P("]")>>
      [] v.t = "obj" -> <<P("{")>> \o DumpEntries(v.kv) \o <<P("}")>>

DumpItems(items) ==
    IF items = <<>> THEN <<>>
    ELSE IF Len(items) = 1 THEN Dumps(items[1])
    ELSE Dumps(items[1]) \o <<P(","), WS>> \o DumpItems(Tail(items))

DumpEntries(kv) ==
    IF kv = <<>> THEN <<>>
    ELSE LET e == <<StrTok(kv[1].key), P(":"), WS>> \o Dumps(kv[1].val) IN
         IF Len(kv) = 1 THEN e
         ELSE e \o <<P(","), WS>> \o DumpEntries(Tail(kv))

\* the serialisation without white space, as an upstream server may send it
RECURSIVE Compact(_)
RECURSIVE CompactItems(_)
RECURSIVE CompactEntries(_)

Compact(v) ==
    CASE v.t = "arr" -> <<P("[")>> \o CompactItems(v.items) \o <<P("]")>>
      [] v.t = "obj" -> <<P("{")>> \o CompactEntries(v.kv) \o <<P("}")>>
      [] OTHER -> Dumps(v)

CompactItems(items) ==
    IF items = <<>> THEN <<>>
    ELSE IF Len(items) = 1 THEN Compact(items[1])
    ELSE Compact(items[1]) \o <<P(",")>> \o CompactItems(Tail(items))

CompactEntries(kv) ==
    IF kv = <<>> THEN <<>>
    ELSE LET e == <<StrTok(kv[1].key), P(":")>> \o Compact(kv[1].val) IN
         IF Len(kv) = 1 THEN e
         ELSE e \o <<P(",")>> \o CompactEntries(Tail(kv))

(***************************************************************************)
(* Python expression semantics used by the relay.                          *)
(***************************************************************************)
\* bool(v): None, False, 0, "", [] and {} are falsy
Truthy(v) ==
    CASE v.t = "null" -> FALSE
      [] v.t = "bool" -> v.b
      [] v.t = "num" -> v.n # 0
      [] v.t = "str" -> v.s # ""
      [] v.t = "arr" -> v.items # <<>>
      [] v.t = "obj" -> v.kv # <<>>

\* a or b
PyOr(a, b) == IF Truthy(a) THEN a ELSE b

Val(v) == [val |-> v, exc |-> "none"]
Raise(e) == [val |-> None, exc |-> e]

\* v.get(key, default): only a dict has .get
PyGet(v, key, default) ==
    IF v.t # "obj" THEN Raise("AttributeError")
    ELSE IF HasKey(v.kv, key) THEN Val(DictLookup(v.kv, key))
    ELSE Val(default)

\* v[0]; of a str it is its first character, again a str (the strings that
\* reach it here have one character)
PyIndex0(v) ==
    CASE v.t = "arr" -> IF v.items = <<>> THEN Raise("IndexError") ELSE Val(v.items[1])
      [] v.t = "str" -> IF v.s = "" THEN Raise("IndexError") ELSE Val(JStr(v.s))
      [] v.t = "obj" -> Raise("KeyError")
      [] OTHER -> Raise("TypeError")

\* repr(v) of a value json.loads produced
RECURSIVE PyRepr(_)
RECURSIVE ReprItems(_)
RECURSIVE ReprEntries(_)

PyRepr(v) ==
    CASE v.t = "null" -> <<Chars("None")>>
      [] v.t = "bool" -> IF v.b THEN <<Chars("True")>> ELSE <<Chars("False")>>
      [] v.t = "num" -> <<NumTok(v.n)>>
      [] v.t = "str" -> <<[k |-> "pystr", s |-> v.s]>>
      [] v.t = "arr" -> <<P("[")>> \o ReprItems(v.items) \o <<P("]")>>
      [] v.t = "obj" -> <<P("{")>> \o ReprEntries(v.kv) \o <<P("}")>>

ReprItems(items) ==
    IF items = <<>> THEN <<>>
    ELSE IF Len(items) = 1 THEN PyRepr(items[1])
    ELSE PyRepr(items[1]) \o <<P(","), WS>> \o ReprItems(Tail(items))

ReprEntries(kv) ==
    IF kv = <<>> THEN <<>>
    ELSE LET e == <<[k |-> "pystr", s |-> kv[1].key], P(":"), WS>> \o PyRepr(kv[1].val) IN
         IF Len(kv) = 1 THEN e
         ELSE e \o <<P(","), WS>> \o ReprEntries(Tail(kv))

\* the characters of a Python str as text
StrText(s) == IF s = "" THEN <<>> ELSE <<Chars(s)>>

\* {v} inside an f-string: str(v); a str contributes its characters, any
\* other value its repr
Format(v) ==
    IF v.t = "str" THEN StrText(v.s) ELSE PyRepr(v)

(***************************************************************************)
(* Exception classes and except-clause matching.                           *)
(***************************************************************************)
ExcParent(c) ==
    CASE c \in {"ConnectTimeout", "ReadTimeout"} -> "TimeoutException"
      [] c \in {"ConnectError", "ReadError"} -> "NetworkError"
      [] c = "RemoteProtocolError" -> "ProtocolError"
      [] c \in {"TimeoutException", "NetworkError", "ProtocolError"} -> "TransportError"
      [] c = "TransportError" -> "RequestError"
      [] c = "RequestError" -> "HTTPError"
      [] c \in {"JSONDecodeError", "ValidationError"} -> "ValueError"
      [] c \in {"IndexError", "KeyError"} -> "LookupError"
      [] c \in {"HTTPError", "ValueError", "LookupError", "AttributeError",
                "TypeError", "HTTPException"} -> "Exception"
      [] OTHER -> "BaseException"

RECURSIVE IsInstance(_, _)
IsInstance(c, cls) ==
    IF c = cls THEN TRUE
    ELSE IF c = "BaseException" THEN FALSE
    ELSE IsInstance(ExcParent(c), cls)

(***************************************************************************)
(* Request and response models (pydantic).                                 *)
(***************************************************************************)
\* a field the JSON body does not carry
Absent == [t |-> "absent"]

\* a JSON body with no field at all
NoBody == [prompt |-> Absent, code |-> Absent, language |-> Absent,
           error |-> Absent, systemPrompt |-> Absent, model |-> Absent]

\* variant: the field declared with min_length=1
RequiredStrOk_MinLength1(v) == v.t = "str" /\ v.s # ""

\* a field declared  name: str = Field(...)
RequiredStrOk(v) == v.t = "str"

\* a field declared  name: Optional[str] = Field(None)
OptionalStrOk(v) == v.t \in {"absent", "null", "str"}
OptionalStr(v) == IF v.t = "str" THEN v ELSE None

\* the name of the required text field of each endpoint's request model
PrimaryField(ep) == IF ep = "generate" THEN "prompt" ELSE "code"

\* FastAPI validates the body against GenerateRequest, ExplainRequest or
\* DebugRequest before it calls the handler; fields the model does not
\* declare are ignored
ValidRequest(ep, b) ==
    /\ RequiredStrOk(b[PrimaryField(ep)])
    /\ OptionalStrOk(b.language)
    /\ OptionalStrOk(b.systemPrompt)
    /\ OptionalStrOk(b.model)
    /\ ep = "debug" => OptionalStrOk(b.error)

\* the request object the handler receives
ParseRequest(ep, b) ==
    [prompt |-> IF ep = "generate" THEN b.prompt ELSE None,
     code |-> IF ep = "generate" THEN None ELSE b.code,
     language |-> OptionalStr(b.language),
     error |-> IF ep = "debug" THEN OptionalStr(b.error) ELSE None,
     systemPrompt |-> OptionalStr(b.systemPrompt),
     model |-> OptionalStr(b.model)]

\* variant: the required text field declared Optional[str] = None
ValidateRequest_OptionalPrimary(ep, b) ==
    [ok |-> /\ OptionalStrOk(b[PrimaryField(ep)])
            /\ OptionalStrOk(b.language)
            /\ OptionalStrOk(b.systemPrompt)
            /\ OptionalStrOk(b.model)
            /\ OptionalStrOk(b.error),
     req |-> [ParseRequest(ep, b) EXCEPT
                !.prompt = IF ep = "generate" THEN OptionalStr(b.prompt) ELSE None,
                !.code = IF ep = "generate" THEN None ELSE OptionalStr(b.code)]]

\* what FastAPI makes of the body: a validation failure or the request
\* object handed to the handler
ValidateRequest(ep, b) ==
    IF ValidRequest(ep, b)
    THEN [ok |-> TRUE, req |-> ParseRequest(ep, b)]
    ELSE [ok |-> FALSE, req |-> ParseRequest(ep, NoBody)]

\* a field declared Optional[int]: None and integers pass, a bool is taken
\* as 0 or 1, the other JSON types are rejected
OptionalIntOk(v) == v.t \in {"null", "num", "bool"}
OptionalInt(v) == IF v.t = "bool" THEN JNum(IF v.b THEN 1 ELSE 0) ELSE v

\* AIResponseUsage(prompt_tokens=p, completion_tokens=c, total_tokens=t)
AIResponseUsage(p, c, t) ==
    IF OptionalIntOk(p) /\ OptionalIntOk(c) /\ OptionalIntOk(t)
    THEN Val([prompt_tokens |-> OptionalInt(p),
              completion_tokens |-> OptionalInt(c),
              total_tokens |-> OptionalInt(t)])
    ELSE Raise("ValidationError")

\* GenerateResponse(content=..., model=..., usage=...): content and model
\* are required str fields
GenerateResponse(content, model, usage) ==
    IF content.t = "str" /\ model.t = "str"
    THEN Val([content |-> content, model |-> model, usage |-> usage])
    ELSE Raise("ValidationError")

(***************************************************************************)
(* Responses to the caller.                                                *)
(***************************************************************************)
Response(status, kind, code, message, content, model, usage) ==
    [content |-> content, code |-> code, model |-> model, usage |-> usage,
     status |-> status, kind |-> kind, message |-> message]

NoResult == Response(0, "none", "", <<>>, None, None, None)

\* raise HTTPException(status_code=status, detail={"error": {message, code}})
HTTPException(status, code, message) ==
    [val |-> None, exc |-> "HTTPException",
     http |-> Response(status, "error", code, message, None, None, None)]

\* any other exception leaving a function
Propagate(e) == [val |-> None, exc |-> e, http |-> NoResult]
Return(v) == [val |-> v, exc |-> "none", http |-> NoResult]

\* the 422 FastAPI answers when the body fails the request model
RequestValidationError ==
    Response(422, "request_validation", "", <<>>, None, None, None)

\* the 200 answer carrying a GenerateResponse
Success(g) ==
    Response(200, "ok", "", <<>>, g.content, g.model, g.usage)

(***************************************************************************)
(* State.                                                                  *)
(***************************************************************************)
VARIABLES
    OPENAI_API_KEY,  \* module constant read from the environment at import
    DEFAULT_MODEL,   \* module constant read from the environment at import
    pc,              \* "idle", "awaiting" (suspended in client.post), "done"
    endpoint,        \* the route of the request being served
    body,            \* its JSON body, as received
    messages,        \* the message list the handler built (<<>>: none built)
    posts,           \* the payloads of the outbound POSTs issued for it
    upstream,        \* what client.post produced: a response or an exception
    result,          \* the response to the caller
    tasks            \* the handler coroutines running side by side, each with
                     \* its own pc, endpoint, body, messages, posts, upstream
                     \* and result

vars == <<OPENAI_API_KEY, DEFAULT_MODEL, pc, endpoint, body, messages, posts,
          upstream, result, tasks>>

(***************************************************************************)
(* Prompt building (the head of generate, explain and debug).              *)
(***************************************************************************)
DefaultSystemPrompt(ep) ==
    CASE ep = "generate" ->
           "You are an AI coding copilot. Provide concise, accurate, and developer-friendly output."
      [] ep = "explain" ->
           "You are an expert code explainer. Provide clear, concise explanations and note complexity or pitfalls."
      [] ep = "debug" ->
           "You are a senior software engineer specializing in debugging. Provide actionable steps and likely causes."

\* the clause appended to the system text when req.language is truthy
LanguageHint(ep, lang) ==
    CASE ep = "generate" ->
           <<Chars(" Where relevant, prefer examples in "), Chars(lang), Chars(".")>>
      [] ep = "explain" ->
           <<Chars(" The code language is "), Chars(lang), Chars(".")>>
      [] ep = "debug" ->
           <<Chars(" Focus on "), Chars(lang), Chars(" specifics where applicable.")>>

\* variant: the override is taken whenever it is not None, and the hint
\* appended whenever language is not None
SystemText_IfNotNone(ep, req) ==
    Format(IF req.systemPrompt # None THEN req.systemPrompt
           ELSE JStr(DefaultSystemPrompt(ep)))
      \o (IF req.language # None THEN LanguageHint(ep, req.language.s) ELSE <<>>)

SystemText(ep, req) ==
    Format(PyOr(req.systemPrompt, JStr(DefaultSystemPrompt(ep))))
      \o (IF Truthy(req.language) THEN LanguageHint(ep, req.language.s) ELSE <<>>)

\* the three backquotes that open and close a code block
Fence == [k |-> "fence"]

\* the code block of the user text: fence, req.language or '', newline,
\* req.code, newline, fence
CodeBlock(req) ==
    <<Fence>> \o Format(PyOr(req.language, JStr("")))
      \o <<Chars("\n")>> \o Format(req.code) \o <<Chars("\n"), Fence>>

UserText(ep, req) ==
    CASE ep = "generate" -> Format(req.prompt)
      [] ep = "explain" ->
           <<Chars("Explain the following code:\n\n")>> \o CodeBlock(req)
      [] ep = "debug" ->
           <<Chars("Analyze and debug the following code.")>>
             \o (IF Truthy(req.error)
                 THEN <<Chars("\nObserved error:\n")>> \o Format(req.error)
                        \o <<Chars("\n")>>
                 ELSE <<>>)
             \o <<Chars("\nCode:\n")>> \o CodeBlock(req)

BuildMessages(ep, req) ==
    << [role |-> "system", content |-> SystemText(ep, req)],
       [role |-> "user", content |-> UserText(ep, req)] >>

(***************************************************************************)
(* _call_openai_chat.                                                      *)
(***************************************************************************)
\* variant: the guard written  if OPENAI_API_KEY is None
MissingKey_IsNone == OPENAI_API_KEY.t = "null"

\* if not OPENAI_API_KEY
MissingKey == ~Truthy(OPENAI_API_KEY)

\* the JSON payload of the POST
Payload(msgs, model) ==
    [model |-> PyOr(model, DEFAULT_MODEL), messages |-> msgs,
     temperature |-> "0.2"]

\* variant: the two except clauses in the other order
NetworkFailure_Swapped(e) ==
    IF IsInstance(e, "RequestError")
    THEN HTTPException(502, "upstream_unreachable",
                       <<Chars("OpenAI connection error: "), Chars(e)>>)
    ELSE IF IsInstance(e, "TimeoutException")
    THEN HTTPException(504, "upstream_timeout",
                       <<Chars("Upstream timeout from OpenAI")>>)
    ELSE Propagate(e)

\* the except clauses around client.post, in source order
NetworkFailure(e) ==
    IF IsInstance(e, "TimeoutException")
    THEN HTTPException(504, "upstream_timeout",
                       <<Chars("Upstream timeout from OpenAI")>>)
    ELSE IF IsInstance(e, "RequestError")
    THEN HTTPException(502, "upstream_unreachable",
                       <<Chars("OpenAI connection error: "), Chars(e)>>)
    ELSE Propagate(e)

\* variant: the message is always resp.text
UpstreamErrorMessage_RawText(text) == text

\* the message of the upstream_error branch:
\*   data.get("error", {}).get("message") or json.dumps(data),
\* and resp.text when anything in that raised
UpstreamErrorMessage(text) ==
    LET data == Loads(text) IN
    IF data.exc # "none" THEN text
    ELSE LET err == PyGet(data.val, "error", JObj(<<>>)) IN
         IF err.exc # "none" THEN text
         ELSE LET msg == PyGet(err.val, "message", None) IN
              IF msg.exc # "none" THEN text
              ELSE IF Truthy(msg.val) THEN Format(msg.val)
              ELSE Dumps(data.val)

\* if resp.status_code >= 400
IsUpstreamError(status) == status >= 400

\* raise HTTPException(502, upstream_error) with the upstream's message
UpstreamError(text) ==
    HTTPException(502, "upstream_error",
                  <<Chars("OpenAI API error: ")>> \o UpstreamErrorMessage(text))

\* variant: resp.json() outside any try
HandleResponse_NoDecodeCatch(status, text) ==
    IF IsUpstreamError(status) THEN UpstreamError(text)
    ELSE LET data == Loads(text) IN
         IF data.exc # "none" THEN Propagate(data.exc) ELSE Return(data.val)

\* the body of _call_openai_chat after client.post returned resp
HandleResponse(status, text) ==
    IF IsUpstreamError(status) THEN UpstreamError(text)
    ELSE LET data == Loads(text) IN
         IF data.exc = "JSONDecodeError"
         THEN HTTPException(502, "invalid_upstream",
                            <<Chars("Invalid JSON from OpenAI")>>)
         ELSE Return(data.val)

\* _call_openai_chat from the point where client.post completes
CallOpenaiChat(up) ==
    IF up.kind = "exception" THEN NetworkFailure(up.exc)
    ELSE HandleResponse(up.status, up.text)

(***************************************************************************)
(* _extract_content_and_usage.                                             *)
(***************************************************************************)
\* choice = (openai_resp.get("choices") or [{}])[0]
ExtractChoice(openai_resp) ==
    LET choices == PyGet(openai_resp, "choices", None) IN
    IF choices.exc # "none" THEN choices
    ELSE PyIndex0(PyOr(choices.val, JArr(<<JObj(<<>>)>>)))

\* content = ((choice.get("message") or {}).get("content")) or ""
ExtractContent(choice) ==
    LET message == PyGet(choice, "message", None) IN
    IF message.exc # "none" THEN message
    ELSE LET content == PyGet(PyOr(message.val, JObj(<<>>)), "content", None) IN
         IF content.exc # "none" THEN content
         ELSE Val(PyOr(content.val, JStr("")))

\* variant: each counter read as  usage_raw.get(name) or None
ExtractUsage_OrNone(openai_resp) ==
    LET usage_raw == PyOr(PyGet(openai_resp, "usage", None).val, JObj(<<>>))
        p == PyGet(usage_raw, "prompt_tokens", None)
        c == PyGet(usage_raw, "completion_tokens", None)
        t == PyGet(usage_raw, "total_tokens", None)
    IN IF p.exc # "none" THEN p
       ELSE AIResponseUsage(PyOr(p.val, None), PyOr(c.val, None), PyOr(t.val, None))

\* usage_raw = openai_resp.get("usage") or {};  usage = AIResponseUsage(...)
ExtractUsage(openai_resp) ==
    LET usage_raw == PyOr(PyGet(openai_resp, "usage", None).val, JObj(<<>>))
        p == PyGet(usage_raw, "prompt_tokens", None)
        c == PyGet(usage_raw, "completion_tokens", None)
        t == PyGet(usage_raw, "total_tokens", None)
    IN IF p.exc # "none" THEN p
       ELSE AIResponseUsage(p.val, c.val, t.val)

\* variant: model_used = DEFAULT_MODEL, whatever the upstream names
ExtractModel_Configured(openai_resp) == DEFAULT_MODEL

\* variant: model_used = openai_resp.get("model", DEFAULT_MODEL)
ExtractModel_GetDefault(openai_resp) ==
    PyGet(openai_resp, "model", DEFAULT_MODEL).val

\* model_used = openai_resp.get("model") or DEFAULT_MODEL
ExtractModel(openai_resp) ==
    PyOr(PyGet(openai_resp, "model", None).val, DEFAULT_MODEL)

ExtractContentAndUsage(openai_resp) ==
    LET choice == ExtractChoice(openai_resp) IN
    IF choice.exc # "none" THEN choice
    ELSE LET content == ExtractContent(choice.val) IN
         IF content.exc # "none" THEN content
         ELSE LET usage == ExtractUsage(openai_resp) IN
              IF usage.exc # "none" THEN usage
              ELSE Val([content |-> content.val,
                        model |-> ExtractModel(openai_resp),
                        usage |-> usage.val])

(***************************************************************************)
(* The try block of generate, explain and debug and its except clauses.    *)
(***************************************************************************)
\* the except clauses of the handlers, in source order
HandlerExcept(r) ==
    IF IsInstance(r.exc, "HTTPException") THEN r.http
    ELSE IF IsInstance(r.exc, "ValidationError")
    THEN HTTPException(400, "validation_error",
                       <<Chars("ValidationError")>>).http
    ELSE HTTPException(500, "unexpected",
                       <<Chars("Unexpected error: "), Chars(r.exc)>>).http

\* the handler from the point where _call_openai_chat produced raw
HandlerResume(raw) ==
    IF raw.exc # "none" THEN HandlerExcept(raw)
    ELSE LET parsed == ExtractContentAndUsage(raw.val) IN
         IF parsed.exc # "none" THEN HandlerExcept(Propagate(parsed.exc))
         ELSE LET g == GenerateResponse(parsed.val.content, parsed.val.model,
                                        parsed.val.usage)
              IN IF g.exc # "none" THEN HandlerExcept(Propagate(g.exc))
                 ELSE Success(g.val)

\* the head of _call_openai_chat, before any network use
CallStart ==
    IF MissingKey
    THEN HTTPException(500, "missing_api_key", <<Chars("OPENAI_API_KEY not set")>>)
    ELSE Return(None)

(***************************************************************************)
(* Inputs: the environment, inbound request bodies, upstream outcomes.     *)
(***************************************************************************)
\* os.environ.get("OPENAI_API_KEY"): unset, empty or set
ApiKeys == {None, JStr(""), JStr("test-key")}

\* os.environ.get("DEFAULT_OPENAI_MODEL", "gpt-4o-mini")
DefaultModels == {JStr("gpt-4o-mini")}

Endpoints == {"generate", "explain", "debug"}

\* the JSON bodies a caller posts to an endpoint
RequestBodies(ep) ==
    { [NoBody EXCEPT ![PrimaryField(ep)] = text, !.language = lang,
                     !.systemPrompt = sys, !.model = model, !.error = err] :
        text \in {Absent, JStr(""), JStr("Say hello")},
        lang \in {Absent, JStr("python")},
        sys \in {Absent, JStr("Be brief.")},
        model \in {Absent, JStr(""), JStr("gpt-4o")},
        err \in IF ep = "debug" THEN {Absent, JStr("Traceback")} ELSE {Absent} }
      \cup
    \* the optional texts absent, empty and non-empty
    { [NoBody EXCEPT ![PrimaryField(ep)] = JStr("Say hello"), !.language = lang,
                     !.systemPrompt = sys, !.error = err] :
        lang \in {Absent, JStr(""), JStr("python")},
        sys \in {Absent, JStr(""), JStr("Be brief.")},
        err \in IF ep = "debug" THEN {Absent, JStr(""), JStr("Traceback")}
                ELSE {Absent} }

\* a JSON object of the entries that are present
Obj(kv) == JObj(SelectSeq(kv, LAMBDA e : e.val.t # "absent"))

\* a chat completion as the upstream sends it
Completion(choices, model, usage) ==
    Obj(<<Entry("model", model), Entry("choices", choices), Entry("usage", usage)>>)

Choice(message) == Obj(<<Entry("message", message)>>)
Message(content) ==
    Obj(<<Entry("role", JStr("assistant")), Entry("content", content)>>)
Usage(p, c, t) ==
    Obj(<<Entry("prompt_tokens", p), Entry("completion_tokens", c),
          Entry("total_tokens", t)>>)

GoodChoices == JArr(<<Choice(Message(JStr("Hello from mock!")))>>)
GoodModel == JStr("mock-model")
GoodUsage == Usage(JNum(1), JNum(0), JNum(1))

ChoicesValues ==
    { Absent, None, JArr(<<>>), JArr(<<None>>), JArr(<<JObj(<<>>)>>),
      JStr("c"), JNum(1), JObj(<<>>), JObj(<<Entry("0", JObj(<<>>))>>),
      JArr(<<Choice(Absent)>>), JArr(<<Choice(None)>>),
      JArr(<<Choice(JStr("text"))>>), JArr(<<Choice(JObj(<<>>))>>),
      JArr(<<Choice(Message(Absent))>>), JArr(<<Choice(Message(None))>>),
      JArr(<<Choice(Message(JStr("")))>>),
      JArr(<<Choice(Message(JArr(<<JStr("part")>>)))>>),
      GoodChoices,
      JArr(<<Choice(Message(JStr("first"))), Choice(Message(JStr("second")))>>) }

ModelValues ==
    { Absent, None, JStr(""), GoodModel, JStr("gpt-4o"), JArr(<<JStr("m")>>) }

CounterValues == {Absent, None} \cup {JNum(n) : n \in 0..MaxTokens}

UsageValues ==
    { Absent, None, JObj(<<>>), JNum(1), JArr(<<JNum(1)>>), JStr("n/a"),
      Usage(JStr("many"), JNum(0), JNum(0)) }
      \cup { Usage(p, c, t) : p \in CounterValues, c \in CounterValues,
                              t \in CounterValues }

\* the JSON values an upstream body may hold
UpstreamValues ==
    { Completion(c, GoodModel, GoodUsage) : c \in ChoicesValues }
      \cup { Completion(GoodChoices, m, u) : m \in ModelValues, u \in {Absent, GoodUsage} }
      \cup { Completion(GoodChoices, m, u) : m \in {Absent, GoodModel}, u \in UsageValues }
      \cup { JObj(<<>>),
             JObj(<<Entry("error", JObj(<<Entry("message", JStr("Model overloaded")),
                                          Entry("type", JStr("server_error"))>>))>>),
             JObj(<<Entry("error", JObj(<<Entry("type", JStr("server_error"))>>))>>),
             JObj(<<Entry("error", JObj(<<Entry("message", None)>>))>>),
             JObj(<<Entry("error", JObj(<<Entry("message", JStr(""))>>))>>),
             JObj(<<Entry("error", JObj(<<Entry("message", JNum(1))>>))>>),
             JObj(<<Entry("error", JStr("bad gateway"))>>),
             JObj(<<Entry("error", None)>>),
             JObj(<<Entry("detail", JStr("rate limited"))>>),
             JArr(<<JNum(1)>>), JArr(<<>>), JStr("oops"), JNum(1), None,
             JBool(TRUE) }

\* texts that json.loads rejects
NonJsonTexts ==
    { <<>>, <<Chars("not json")>>, <<P("{"), StrTok("error"), P(":")>>,
      <<P("{"), P("}"), Chars("trailing")>>, <<StrTok("a"), StrTok("b")>>,
      <<P("["), NumTok(1), P(","), P("]")>> }

\* the body texts of upstream responses: every value without white space,
\* every value as json.dumps writes it, and the texts that are no JSON
UpstreamTexts ==
    { Compact(v) : v \in UpstreamValues }
      \cup { Dumps(v) : v \in UpstreamValues }
      \cup NonJsonTexts

UpstreamStatuses == {200, 201, 400, 500}

\* the exceptions client.post raises on a network failure
NetworkExceptions ==
    {"ConnectTimeout", "ReadTimeout", "ConnectError", "ReadError",
     "RemoteProtocolError"}

Outcome(kind, status, text, exc) ==
    [text |-> text, exc |-> exc, status |-> status, kind |-> kind]

NoUpstream == Outcome("none", 0, <<>>, "")

\* the coroutines of the event loop; one that serves no request
Tasks == 1..MaxTasks
TaskIdle ==
    [pc |-> "idle", endpoint |-> "", body |-> NoBody, messages |-> <<>>,
     posts |-> <<>>, upstream |-> NoUpstream, result |-> NoResult]

(***************************************************************************)
(* Behaviour.                                                              *)
(***************************************************************************)
Init ==
    /\ OPENAI_API_KEY \in ApiKeys
    /\ DEFAULT_MODEL \in DefaultModels
    /\ pc = "idle"
    /\ endpoint = ""
    /\ body = NoBody
    /\ messages = <<>>
    /\ posts = <<>>
    /\ upstream = NoUpstream
    /\ result = NoResult
    /\ tasks = [t \in Tasks |-> TaskIdle]

\* POST ep with JSON body b arrives: request validation, then the handler
\* up to its suspension in client.post
Receive(ep, b) ==
    /\ pc = "idle"
    /\ endpoint' = ep
    /\ body' = b
    /\ upstream' = NoUpstream
    /\ LET v == ValidateRequest(ep, b) IN
       IF ~v.ok
       THEN /\ result' = RequestValidationError
            /\ pc' = "done"
            /\ UNCHANGED <<messages, posts>>
       ELSE LET msgs == BuildMessages(ep, v.req)
                start == CallStart
            IN /\ messages' = msgs
               /\ IF start.exc # "none"
                  THEN /\ result' = HandlerExcept(start)
                       /\ pc' = "done"
                       /\ UNCHANGED posts
                  ELSE /\ posts' = Append(posts, Payload(msgs, v.req.model))
                       /\ pc' = "awaiting"
                       /\ UNCHANGED result
    /\ UNCHANGED <<OPENAI_API_KEY, DEFAULT_MODEL, tasks>>

generate == \E b \in RequestBodies("generate") : Receive("generate", b)
explain == \E b \in RequestBodies("explain") : Receive("explain", b)
debug == \E b \in RequestBodies("debug") : Receive("debug", b)

\* client.post completed, with a response or an exception: the rest of
\* _call_openai_chat and of the handler
Resume(kind, status, text, exc) ==
    /\ pc = "awaiting"
    /\ upstream' = Outcome(kind, status, text, exc)
    /\ result' = HandlerResume(CallOpenaiChat(Outcome(kind, status, text, exc)))
    /\ pc' = "done"
    /\ UNCHANGED <<OPENAI_API_KEY, DEFAULT_MODEL, endpoint, body, messages, posts,
                   tasks>>

UpstreamResponds ==
    \E status \in UpstreamStatuses, text \in UpstreamTexts :
        Resume("response", status, text, "")

UpstreamFails ==
    \E e \in NetworkExceptions : Resume("exception", 0, <<>>, e)

\* the response is sent; nothing of the request outlives it
Finish ==
    /\ pc = "done"
    /\ pc' = "idle"
    /\ endpoint' = ""
    /\ body' = NoBody
    /\ messages' = <<>>
    /\ posts' = <<>>
    /\ upstream' = NoUpstream
    /\ result' = NoResult
    /\ UNCHANGED <<OPENAI_API_KEY, DEFAULT_MODEL, tasks>>

Next == generate \/ explain \/ debug \/ UpstreamResponds \/ UpstreamFails \/ Finish

Spec == Init /\ [][Next]_vars

(***************************************************************************)
(* Requests served side by side: each request is a coroutine of the event  *)
(* loop, suspended in client.post while the others run.  The coroutines    *)
(* read OPENAI_API_KEY and DEFAULT_MODEL and write locals only.            *)
(***************************************************************************)
\* the bodies posted while other requests are in flight
TaskBodies(ep) ==
    { [NoBody EXCEPT ![PrimaryField(ep)] = text] :
        text \in {Absent, JStr("Say hello")} }

\* what client.post produces for them
TaskStatuses == {200, 500}
TaskTexts ==
    { Compact(Completion(GoodChoices, GoodModel, GoodUsage)),
      <<Chars("not json")>>,
      Dumps(JObj(<<Entry("error", JObj(<<Entry("message", JStr("Model overloaded")),
                                         Entry("type", JStr("server_error"))>>))>>)) }
TaskExceptions == {"ReadTimeout", "ConnectError"}

ConcInit ==
    /\ OPENAI_API_KEY \in ApiKeys
    /\ DEFAULT_MODEL \in DefaultModels
    /\ pc = "idle"
    /\ endpoint = ""
    /\ body = NoBody
    /\ messages = <<>>
    /\ posts = <<>>
    /\ upstream = NoUpstream
    /\ result = NoResult
    /\ tasks = [t \in Tasks |-> TaskIdle]

\* POST ep with body b is taken up by coroutine t, which runs to its answer
\* or to its suspension in client.post
TaskReceive(t) ==
    /\ tasks[t].pc = "idle"
    /\ \E ep \in Endpoints : \E b \in TaskBodies(ep) :
         LET v == ValidateRequest(ep, b) IN
         IF ~v.ok
         THEN tasks' = [tasks EXCEPT ![t] =
                          [pc |-> "done", endpoint |-> ep, body |-> b,
                           messages |-> <<>>, posts |-> <<>>,
                           upstream |-> NoUpstream,
                           result |-> RequestValidationError]]
         ELSE IF CallStart.exc # "none"
         THEN tasks' = [tasks EXCEPT ![t] =
                          [pc |-> "done", endpoint |-> ep, body |-> b,
                           messages |-> BuildMessages(ep, v.req),
                           posts |-> <<>>, upstream |-> NoUpstream,
                           result |-> HandlerExcept(CallStart)]]
         ELSE tasks' = [tasks EXCEPT ![t] =
                          [pc |-> "awaiting", endpoint |-> ep, body |-> b,
                           messages |-> BuildMessages(ep, v.req),
                           posts |-> <<Payload(BuildMessages(ep, v.req),
                                               v.req.model)>>,
                           upstream |-> NoUpstream, result |-> NoResult]]
    /\ UNCHANGED <<OPENAI_API_KEY, DEFAULT_MODEL, pc, endpoint, body, messages,
                   posts, upstream, result>>

\* variant: a failed client.post is attempted once more
TaskResume_Retry(t, kind, status, text, exc) ==
    /\ tasks[t].pc = "awaiting"
    /\ IF kind = "exception" /\ Len(tasks[t].posts) < 2
       THEN tasks' = [tasks EXCEPT ![t].posts = Append(@, @[1])]
       ELSE tasks' = [tasks EXCEPT
                        ![t].pc = "done",
                        ![t].upstream = Outcome(kind, status, text, exc),
                        ![t].result =
                           HandlerResume(CallOpenaiChat(Outcome(kind, status, text, exc)))]
    /\ UNCHANGED <<OPENAI_API_KEY, DEFAULT_MODEL, pc, endpoint, body, messages,
                   posts, upstream, result>>

\* client.post of coroutine t completed: the rest of _call_openai_chat and
\* of the handler, whatever the other coroutines are doing
TaskResume(t, kind, status, text, exc) ==
    /\ tasks[t].pc = "awaiting"
    /\ tasks' = [tasks EXCEPT
                   ![t].pc = "done",
                   ![t].upstream = Outcome(kind, status, text, exc),
                   ![t].result =
                      HandlerResume(CallOpenaiChat(Outcome(kind, status, text, exc)))]
    /\ UNCHANGED <<OPENAI_API_KEY, DEFAULT_MODEL, pc, endpoint, body, messages,
                   posts, upstream, result>>

TaskResponds(t) ==
    \E status \in TaskStatuses, text \in TaskTexts :
        TaskResume(t, "response", status, text, "")

TaskFails(t) ==
    \E e \in TaskExceptions : TaskResume(t, "exception", 0, <<>>, e)

\* the response of coroutine t is sent and the coroutine ends
TaskFinish(t) ==
    /\ tasks[t].pc = "done"
    /\ tasks' = [tasks EXCEPT ![t] = TaskIdle]
    /\ UNCHANGED <<OPENAI_API_KEY, DEFAULT_MODEL, pc, endpoint, body, messages,
                   posts, upstream, result>>

ConcNext ==
    \E t \in Tasks :
        TaskReceive(t) \/ TaskResponds(t) \/ TaskFails(t) \/ TaskFinish(t)

ConcSpec == ConcInit /\ [][ConcNext]_vars

\* httpx.AsyncClient(timeout=REQUEST_TIMEOUT): a pending client.post ends,
\* with a response or with an exception
PostCompletes == \A t \in Tasks : WF_vars(TaskResponds(t) \/ TaskFails(t))

ConcFairSpec == ConcSpec /\ PostCompletes

TypeOK ==
    /\ pc \in {"idle", "awaiting", "done"}
    /\ Len(posts) <= 1
    /\ result.status \in {0, 200, 400, 422, 500, 502, 504}

(***************************************************************************)
(* Properties.                                                             *)
(***************************************************************************)
Answered == pc = "done"
GotResponse == pc = "done" /\ upstream.kind = "response"
GotException == pc = "done" /\ upstream.kind = "exception"

\* the required text field of the request being served, as received
PrimaryText ==
    IF endpoint = "generate" THEN body.prompt ELSE body.code

\* the body passes the request model: the required text field is a string
SchemaValid == pc # "idle" /\ PrimaryText.t = "str"

\* no credential: OPENAI_API_KEY unset or empty
NoCredential == OPENAI_API_KEY \in {None, JStr("")}

IsError(status, code) ==
    result.kind = "error" /\ result.status = status /\ result.code = code

\* C1: with no API credential configured (OPENAI_API_KEY unset or empty), a
\* schema-valid request to /generate, /explain or /debug ends with status 500
\* and code missing_api_key, and no outbound POST is issued for it.
C1_MissingApiKey ==
    (NoCredential /\ SchemaValid) =>
        /\ Answered
        /\ IsError(500, "missing_api_key")
        /\ posts = <<>>

C1_Witness ==
    /\ OPENAI_API_KEY = JStr("")
    /\ endpoint = "debug"
    /\ SchemaValid
    /\ IsError(500, "missing_api_key")
    /\ messages # <<>>
    /\ posts = <<>>

\* the upstream body is JSON text, and the value it denotes
BodyIsJson == upstream.text \notin NonJsonTexts
BodyValue == Loads(upstream.text).val

\* the value of d[key] of a JSON object, Absent when d has no such key
Field(d, key) == IF HasKey(d.kv, key) THEN DictLookup(d.kv, key) ELSE Absent

ErrorPrefix == <<Chars("OpenAI API error: ")>>

\* the upstream body is a JSON object whose error is an object carrying a
\* non-empty string message
HasErrorMessage ==
    /\ BodyIsJson
    /\ BodyValue.t = "obj"
    /\ Field(BodyValue, "error").t = "obj"
    /\ Field(Field(BodyValue, "error"), "message").t = "str"
    /\ Field(Field(BodyValue, "error"), "message").s # ""

\* C2 as stated: an upstream status >= 400 gives 502 upstream_error whose
\* message carries the upstream error.message when the body is JSON with one,
\* and the raw upstream body text for every other body.
C2_RawBodyOtherwise ==
    (GotResponse /\ upstream.status >= 400) =>
        /\ IsError(502, "upstream_error")
        /\ result.message =
             ErrorPrefix \o (IF HasErrorMessage
                             THEN <<Chars(Field(Field(BodyValue, "error"), "message").s)>>
                             ELSE upstream.text)

\* the upstream body is a JSON object whose error is absent or an object, and
\* that error has no message or a falsy one (null, "", 0, [], {})
JsonWithoutErrorMessage ==
    /\ BodyIsJson
    /\ BodyValue.t = "obj"
    /\ Field(BodyValue, "error").t \in {"absent", "obj"}
    /\ \/ Field(BodyValue, "error").t = "absent"
       \/ Field(Field(BodyValue, "error"), "message").t = "absent"
       \/ ~Truthy(Field(Field(BodyValue, "error"), "message"))

\* C2 amended: an upstream status >= 400 gives 502 upstream_error; the
\* message carries error.message when the body is a JSON object whose error
\* object has a non-empty string message, the json.dumps re-serialisation of
\* the parsed body when the body is a JSON object with no (or a falsy)
\* error.message, and the raw body text when the body is not JSON, is JSON
\* but not an object, or has an error that is not an object.
C2_UpstreamError ==
    (GotResponse /\ upstream.status >= 400) =>
        /\ IsError(502, "upstream_error")
        /\ HasErrorMessage =>
             result.message =
               ErrorPrefix \o <<Chars(Field(Field(BodyValue, "error"), "message").s)>>
        /\ JsonWithoutErrorMessage =>
             result.message = ErrorPrefix \o Dumps(BodyValue)
        /\ (~BodyIsJson \/ BodyValue.t # "obj"
              \/ Field(BodyValue, "error").t \notin {"absent", "obj"}) =>
             result.message = ErrorPrefix \o upstream.text

\* a compact JSON body without error.message comes back re-serialised
C2_Witness ==
    /\ GotResponse
    /\ upstream.status = 500
    /\ upstream.text = Compact(JObj(<<Entry("detail", JStr("rate limited"))>>))
    /\ IsError(502, "upstream_error")
    /\ result.message # ErrorPrefix \o upstream.text
    /\ result.message = ErrorPrefix \o Dumps(BodyValue)

\* C3: an upstream 2xx response whose body is not valid JSON gives 502 with
\* code invalid_upstream on every relay endpoint, never unexpected and never
\* a 200.
C3_InvalidUpstream ==
    (GotResponse /\ upstream.status \in 200..299 /\ ~BodyIsJson) =>
        IsError(502, "invalid_upstream")

C3_Witness ==
    /\ GotResponse
    /\ endpoint = "explain"
    /\ upstream.status = 201
    /\ upstream.text = <<Chars("not json")>>
    /\ IsError(502, "invalid_upstream")

\* the network failures of client.post: timeouts, and the others
Timeouts == {"ConnectTimeout", "ReadTimeout"}

\* C4: a timeout of the outbound POST gives 504 upstream_timeout, any other
\* network failure gives 502 upstream_unreachable; a timeout is never
\* reported as upstream_unreachable and neither as unexpected.
C4_NetworkFailures ==
    GotException =>
        /\ upstream.exc \in Timeouts => IsError(504, "upstream_timeout")
        /\ upstream.exc \notin Timeouts => IsError(502, "upstream_unreachable")
        /\ result.code # "unexpected"

C4_Witness ==
    /\ GotException
    /\ upstream.exc = "ReadTimeout"
    /\ IsError(504, "upstream_timeout")

\* the upstream answered below 400 with a JSON body
GotJson == GotResponse /\ upstream.status < 400 /\ BodyIsJson
GotObject == GotJson /\ BodyValue.t = "obj"

\* C5 as stated: normalisation never raises for a well-formed upstream JSON
\* object whose expected fields are missing, null, empty or of another shape
\* at any level; every field access degrades to its default.
C5_NeverRaises ==
    GotObject => ExtractContentAndUsage(BodyValue).exc = "none"

\* parts of an upstream JSON object
FirstChoice == Field(BodyValue, "choices").items[1]
UpContent == Field(Field(FirstChoice, "message"), "content")
UpModel == Field(BodyValue, "model")
UpUsage == Field(BodyValue, "usage")
CounterNames == {"prompt_tokens", "completion_tokens", "total_tokens"}

\* the upstream object carries choices[0].message.content, model and the
\* three usage counters
FullCompletion ==
    /\ GotObject
    /\ Field(BodyValue, "choices").t = "arr"
    /\ Field(BodyValue, "choices").items # <<>>
    /\ FirstChoice.t = "obj"
    /\ Field(FirstChoice, "message").t = "obj"
    /\ UpContent.t = "str"
    /\ UpModel.t = "str" /\ UpModel.s # ""
    /\ UpUsage.t = "obj"
    /\ \A name \in CounterNames : Field(UpUsage, name).t = "num"

\* C6: an upstream 200 response that carries choices[0].message.content,
\* model and the three usage counters is answered with status 200 and exactly
\* those values, whatever the request's model override or prompt.
C6_ExactValues ==
    FullCompletion =>
        /\ result.status = 200
        /\ result.kind = "ok"
        /\ result.content = UpContent
        /\ result.model = UpModel
        /\ \A name \in CounterNames : result.usage[name] = Field(UpUsage, name)

C6_Witness ==
    /\ FullCompletion
    /\ endpoint = "debug"
    /\ body.model = JStr("gpt-4o")
    /\ result.status = 200
    /\ result.content = JStr("Hello from mock!")
    /\ result.model = GoodModel
    /\ result.usage.prompt_tokens = JNum(1)
    /\ result.usage.completion_tokens = JNum(0)

\* usage is an object whose counters are absent, null or integers: then each
\* counter of the answer is null or its upstream value, one by one
CountersFollow ==
    (GotObject /\ UpUsage.t = "obj"
       /\ \A name \in CounterNames :
            Field(UpUsage, name).t \in {"absent", "null", "num"}) =>
        /\ result.kind = "ok" => \A name \in CounterNames :
             result.usage[name] =
               IF Field(UpUsage, name).t = "num" THEN Field(UpUsage, name) ELSE None

\* C7 as stated: with no usage key in the upstream JSON the answer has no
\* usage object at all; with usage present each counter is null or its
\* upstream value.
C7_UsageAbsent ==
    /\ (GotObject /\ UpUsage.t = "absent" /\ result.kind = "ok") =>
          result.usage = None
    /\ CountersFollow

\* C7 amended: a usage object is always produced; with no usage key (or a
\* null or empty usage) in the upstream JSON its three counters are all null,
\* and with usage an object of absent, null or integer counters each counter
\* is null or its upstream value.
C7_UsageAllNull ==
    /\ (GotObject /\ result.kind = "ok"
          /\ (UpUsage.t \in {"absent", "null"} \/ UpUsage = JObj(<<>>))) =>
          /\ result.usage # None
          /\ \A name \in CounterNames : result.usage[name] = None
    /\ CountersFollow

C7_Witness ==
    /\ GotObject
    /\ UpUsage.t = "absent"
    /\ result.kind = "ok"
    /\ result.usage # None
    /\ result.usage.total_tokens = None

\* C8: when the upstream JSON omits model (absent, null or empty) the answer
\* names the configured default model, also for a request with its own model
\* override; when the upstream supplies model, that name is returned.
C8_ModelFallback ==
    GotObject =>
        /\ (Field(BodyValue, "choices") = GoodChoices
              /\ UpUsage \in {Absent, GoodUsage}
              /\ UpModel \in {Absent, None, JStr(""), GoodModel}) =>
             result.kind = "ok"
        /\ (result.kind = "ok" /\ UpModel \in {Absent, None, JStr("")}) =>
             result.model = DEFAULT_MODEL
        /\ (result.kind = "ok" /\ UpModel.t = "str" /\ UpModel.s # "") =>
             result.model = UpModel

C8_Witness ==
    /\ GotObject
    /\ UpModel = None
    /\ body.model = JStr("gpt-4o")
    /\ posts[1].model = JStr("gpt-4o")
    /\ result.kind = "ok"
    /\ result.model = DEFAULT_MODEL
    /\ result.model # body.model

\* C9: a request body without the required text field (prompt for /generate,
\* code for /explain and /debug) is rejected with a 400-class validation
\* failure before the handler runs: no prompt is built, no outbound call made.
C9_MissingField ==
    (pc # "idle" /\ PrimaryText.t = "absent") =>
        /\ Answered
        /\ result.kind = "request_validation"
        /\ result.status \in 400..499
        /\ messages = <<>>
        /\ posts = <<>>

C9_Witness ==
    /\ endpoint = "explain"
    /\ body.code = Absent
    /\ ~MissingKey
    /\ Answered
    /\ result.status = 422
    /\ posts = <<>>

\* C10 as stated: a request whose primary text field is the empty string is
\* rejected by validation and never dispatched upstream.
C10_NonEmptyEnforced ==
    (pc # "idle" /\ PrimaryText = JStr("")) =>
        /\ result.kind = "request_validation"
        /\ posts = <<>>

\* C10 amended: schema validation enforces only that the primary text field
\* is present and a string; a request whose primary text field is the empty
\* string passes validation, its prompt is built and, with a credential
\* configured, it is dispatched upstream.
C10_EmptyAccepted ==
    /\ (pc # "idle" /\ PrimaryText = JStr("")) =>
          /\ result.kind # "request_validation"
          /\ Len(messages) = 2
          /\ ~NoCredential => Len(posts) = 1
    /\ (pc # "idle" /\ PrimaryText.t # "str") =>
          result.kind = "request_validation"

C10_Witness ==
    /\ pc = "awaiting"
    /\ endpoint = "generate"
    /\ body.prompt = JStr("")
    /\ Len(posts) = 1
    /\ posts[1].messages[2].content = <<>>

\* the failure table: each error code with its status
ErrorTable ==
    {<<"missing_api_key", 500>>, <<"upstream_timeout", 504>>,
     <<"upstream_unreachable", 502>>, <<"upstream_error", 502>>,
     <<"invalid_upstream", 502>>, <<"validation_error", 400>>,
     <<"unexpected", 500>>}

\* C11 as stated: every non-2xx answer of a relay endpoint is the error
\* envelope with a code and status of the failure table; a body that fails
\* the request schema is answered 400 validation_error; and validation_error
\* is answered only for malformed caller input, never because of the content
\* of the upstream response.
C11_ErrorEnvelope ==
    /\ (Answered /\ result.status \notin 200..299) =>
          /\ result.kind = "error"
          /\ <<result.code, result.status>> \in ErrorTable
    /\ (pc # "idle" /\ PrimaryText.t # "str") =>
          IsError(400, "validation_error")
    /\ result.code = "validation_error" =>
          /\ PrimaryText.t # "str"
          /\ upstream.kind # "response"

\* the two ways C11 fails, each alone: a schema failure answered 422 outside
\* the envelope, and a schema-valid request answered 400 validation_error
\* because of the upstream body
C11_SchemaFailure ==
    /\ Answered
    /\ PrimaryText.t # "str"
    /\ result.kind = "request_validation"
    /\ result.status = 422
    /\ result.code # "validation_error"

C11_UpstreamCaused ==
    /\ GotObject
    /\ SchemaValid
    /\ upstream.status = 200
    /\ IsError(400, "validation_error")

\* the answer a request reaches when it is served alone: what Receive and
\* Resume compute for it
SoloResult(ep, b, up) ==
    LET v == ValidateRequest(ep, b) IN
    IF ~v.ok THEN RequestValidationError
    ELSE IF CallStart.exc # "none" THEN HandlerExcept(CallStart)
    ELSE HandlerResume(CallOpenaiChat(up))

\* the answers of the contract: the normalized 200, or an error of the
\* failure table (request-schema failures are answered by the framework)
IsOutcome(r) ==
    \/ r.kind = "ok" /\ r.status = 200
    \/ r.kind = "error" /\ <<r.code, r.status>> \in ErrorTable
    \/ r.kind = "request_validation" /\ r.status = 422

\* at most one POST per request, none before validation and the credential
\* test pass, one answer per request, and the answer of a request served
\* next to others is the answer it reaches alone
OnePostOneOutcome ==
    \A t \in Tasks :
        /\ Len(tasks[t].posts) <= 1
        /\ tasks[t].pc = "awaiting" =>
              Len(tasks[t].posts) = 1 /\ tasks[t].result = NoResult
        /\ tasks[t].pc = "done" =>
              /\ IsOutcome(tasks[t].result)
              /\ tasks[t].upstream.kind = "none" <=> tasks[t].posts = <<>>
              /\ tasks[t].result =
                   SoloResult(tasks[t].endpoint, tasks[t].body, tasks[t].upstream)

\* a step of one coroutine leaves the others as they are, issues no POST for
\* a request whose POST was issued, and leaves an answer as it is until sent
StepsAreLocal ==
    \A t \in Tasks :
        /\ tasks'[t] # tasks[t] => \A u \in Tasks \ {t} : tasks'[u] = tasks[u]
        /\ (tasks[t].pc = "awaiting" /\ tasks'[t].pc # "idle") =>
              tasks'[t].posts = tasks[t].posts
        /\ (tasks[t].pc = "done" /\ tasks'[t].pc # "idle") =>
              tasks'[t] = tasks[t]

Supplied(f) == f.t = "str" /\ f.s # ""

\* the system content the request variant calls for
ExpectedSystem ==
    (IF Supplied(body.systemPrompt) THEN <<Chars(body.systemPrompt.s)>>
     ELSE <<Chars(DefaultSystemPrompt(endpoint))>>)
      \o (IF Supplied(body.language) THEN LanguageHint(endpoint, body.language.s)
          ELSE <<>>)

\* the labeled observed-error block of a text comes before its code block
ErrorLabel == Chars("\nObserved error:\n")
CodeLabel == Chars("\nCode:\n")
ErrorBlockBeforeCode(text) ==
    \E i \in 1..Len(text) : \E j \in 1..Len(text) :
        /\ i + 2 < j
        /\ text[i] = ErrorLabel
        /\ text[i + 1] = Chars(body.error.s)
        /\ text[i + 2] = Chars("\n")
        /\ text[j] = CodeLabel
        /\ text[j + 1] = Fence
NoErrorBlock(text) == \A i \in 1..Len(text) : text[i] # ErrorLabel

\* C13: for every request variant the message sequence sent upstream has
\* exactly two elements, role system first and role user second; the system
\* content is the systemPrompt override when one is supplied (non-empty),
\* else the variant's literal default instruction, with the variant's
\* language hint appended exactly when a non-empty language is supplied; for
\* debug the user content holds the labeled observed-error block before the
\* code block exactly when a (non-empty) error text is supplied.
C13_TwoMessages ==
    \A i \in 1..Len(posts) :
        LET sent == posts[i].messages IN
        /\ sent = messages
        /\ Len(sent) = 2
        /\ sent[1].role = "system"
        /\ sent[2].role = "user"
        /\ sent[1].content = ExpectedSystem
        /\ endpoint = "debug" =>
              IF Supplied(body.error)
              THEN ErrorBlockBeforeCode(sent[2].content)
              ELSE NoErrorBlock(sent[2].content)

\* a debug request with an error text, an empty override and a language
C13_Witness ==
    /\ endpoint = "debug"
    /\ Len(posts) = 1
    /\ body.error = JStr("Traceback")
    /\ body.systemPrompt = JStr("")
    /\ body.language = JStr("python")
    /\ posts[1].messages[1].content =
         <<Chars(DefaultSystemPrompt("debug"))>> \o LanguageHint("debug", "python")
    /\ ErrorBlockBeforeCode(posts[1].messages[2].content)

====
